---- MODULE Spec2Model ----
(***************************************************************************)
(* MazeSolver (MazeSolver.py): maze generation by randomized carving, and  *)
(* the four animated searches (BFS, DFS, Dijkstra and A-star) driven by    *)
(* timer callbacks with pause/resume.                                      *)
(*                                                                         *)
(* Coordinates are <<x, y>> as in the source.  The maze is a sequence of   *)
(* rows, maze[y+1][x+1] is the source's maze[y][x]; 1 = wall, 0 = passage. *)
(* Python's None is the empty tuple.                                       *)
(***************************************************************************)
EXTENDS Integers, Sequences, FiniteSets, TLC

VARIABLES
  maze,                \* self.maze
  start_point,         \* self.start_point
  end_point,           \* self.end_point
  algorithm_var,       \* self.algorithm_var
  animation_delay_var, \* self.animation_delay_var
  paused,              \* self.paused
  solving,             \* self.solving
  search_nodes,        \* self.search_nodes (list / heapq list)
  parents,             \* self.parents
  distances,           \* self.distances
  pending,             \* timer callbacks scheduled with self.after and not yet fired
  painted,             \* cells drawn "lightblue" on the canvas since the last draw_maze
  path,                \* the list built by draw_solution_path (cells drawn "yellow")
  message,             \* the message box a step of the search has ended with, "" while it has not
  dialogs,             \* the message boxes that are open, the innermost last
  popped,              \* the entry popped by the last step (locals cost / f, g, current)
  steps,               \* step calls that passed the solving and paused checks since the last solve
  solves,              \* searches started so far
  entry_kind,          \* the shape of the entries on_solve_maze seeded search_nodes with
  raised,              \* the last exception a handler or callback ended with, "" if none
  selection_mode,      \* self.selection_mode, NoAttr while the attribute is not set
  events,              \* handlers the main loop has run for the user, where they are counted
  gen_pc,              \* where a call of generate_maze stands
  gen_width,           \* the width generate_maze was called with
  gen_height,          \* the height generate_maze was called with
  gen_maze,            \* generate_maze's local maze
  cell_list            \* generate_maze's local cell_list

engine_vars == <<solving, search_nodes, parents, distances, painted, path, message, dialogs,
                 popped, steps, entry_kind, raised>>
ui_vars == <<selection_mode>>
gen_vars == <<gen_pc, gen_width, gen_height, gen_maze, cell_list>>
vars == <<maze, start_point, end_point, algorithm_var, animation_delay_var, paused,
          solving, search_nodes, parents, distances, pending, painted, path, message,
          dialogs, popped, steps, solves, entry_kind, raised, selection_mode, events,
          gen_pc, gen_width, gen_height, gen_maze, cell_list>>

None == <<>>
\* hasattr(self, "selection_mode") is false
NoAttr == ""

(***************************************************************************)
(* Bounds of the model.                                                    *)
(***************************************************************************)
GridW == 5
GridH == 5
MaxSolves == 1
MaxGenDim == 5
MaxPending == 2
MaxAppWidth == 3
MaxAppHeight == 5
MaxEvents == 10
FixtureW == 3
FixtureH == 2

(***************************************************************************)
(* Program constants.                                                      *)
(***************************************************************************)
PAUSE_POLL_MS == 100
DELAY_MIN == 10
DELAY_MAX == 200
DELAY_DEFAULT == 50

Algorithms == {"BFS", "DFS", "Dijkstra", "A*"}

(***************************************************************************)
(* Grid access.                                                            *)
(***************************************************************************)
Rows(m) == Len(m)
Cols(m) == Len(m[1])
Cell(m, x, y) == m[y + 1][x + 1]

\* if 0 <= nx < len(self.maze[0]) and 0 <= ny < len(self.maze)
InBounds(m, x, y) == 0 <= x /\ x < Cols(m) /\ 0 <= y /\ y < Rows(m)
IsPassage(m, x, y) == InBounds(m, x, y) /\ Cell(m, x, y) = 0
PassageCells(m) == {c \in (0 .. Cols(m) - 1) \X (0 .. Rows(m) - 1) : Cell(m, c[1], c[2]) = 0}

\* Faulty variant: the step (0, -1) is missing.
DIRS_without_up == << <<1, 0>>, <<0, 1>>, <<-1, 0>> >>

\* Faulty variant: the last step is a diagonal one.
DIRS_with_diagonal == << <<1, 0>>, <<0, 1>>, <<-1, 0>>, <<1, -1>> >>

\* The neighbour order of the four animate loops.
DIRS == << <<1, 0>>, <<0, 1>>, <<-1, 0>>, <<0, -1>> >>

Abs(n) == IF n < 0 THEN -n ELSE n

\* dict assignment d[k] = v
DictSet(d, k, v) == [c \in (DOMAIN d) \cup {k} |-> IF c = k THEN v ELSE d[c]]
\* dict.get(k): None when the key is missing
DictGet(d, k) == IF k \in DOMAIN d THEN d[k] ELSE None
EmptyDict == [c \in {} |-> None]

(***************************************************************************)
(* heapq on a Python list.  Positions are 0-based as in heapq; entries are *)
(* the tuples the source pushes: <<cost, <<x, y>>>> for Dijkstra and       *)
(* <<f, g, <<x, y>>>> for A-star, compared as Python compares tuples.      *)
(***************************************************************************)
Key(e) == IF Len(e) = 3 THEN <<e[1], e[2], e[3][1], e[3][2]>>
          ELSE <<e[1], e[2][1], e[2][2]>>

RECURSIVE SeqLt(_, _, _)
SeqLt(a, b, i) ==
  IF i > Len(a) \/ i > Len(b) THEN Len(a) < Len(b)
  ELSE IF a[i] # b[i] THEN a[i] < b[i]
  ELSE SeqLt(a, b, i + 1)

TupleLt(a, b) == SeqLt(Key(a), Key(b), 1)

RECURSIVE siftdown_loop(_, _, _, _)
siftdown_loop(heap, startpos, pos, newitem) ==
  IF pos > startpos
  THEN LET parentpos == (pos - 1) \div 2
           parent == heap[parentpos + 1]
       IN IF TupleLt(newitem, parent)
          THEN siftdown_loop([heap EXCEPT ![pos + 1] = parent], startpos, parentpos, newitem)
          ELSE [heap EXCEPT ![pos + 1] = newitem]
  ELSE [heap EXCEPT ![pos + 1] = newitem]

siftdown(heap, startpos, pos) == siftdown_loop(heap, startpos, pos, heap[pos + 1])

RECURSIVE siftup_loop(_, _, _, _, _)
siftup_loop(heap, startpos, pos, childpos, newitem) ==
  IF childpos < Len(heap)
  THEN LET rightpos == childpos + 1
           c == IF rightpos < Len(heap) /\ ~TupleLt(heap[childpos + 1], heap[rightpos + 1])
                THEN rightpos ELSE childpos
       IN siftup_loop([heap EXCEPT ![pos + 1] = heap[c + 1]], startpos, c, 2 * c + 1, newitem)
  ELSE siftdown([heap EXCEPT ![pos + 1] = newitem], startpos, pos)

siftup(heap, pos) == siftup_loop(heap, pos, pos, 2 * pos + 1, heap[pos + 1])

heappush(heap, item) == siftdown(Append(heap, item), 0, Len(heap))

\* heappop: the smallest entry and the list left
heappop(heap) ==
  LET lastelt == heap[Len(heap)]
      rest == SubSeq(heap, 1, Len(heap) - 1)
  IN IF rest # <<>>
     THEN [item |-> rest[1], rest |-> siftup([rest EXCEPT ![1] = lastelt], 0)]
     ELSE [item |-> lastelt, rest |-> rest]

\* Faulty variant: the cell behind the popped one is taken off the queue too.
pop_front_dropping_next(list) ==
  [item |-> Head(list), rest |-> IF Len(list) > 1 THEN Tail(Tail(list)) ELSE <<>>]

\* list.pop(0) of animate_bfs and list.pop() of animate_dfs
pop_front(list) == [item |-> Head(list), rest |-> Tail(list)]
pop_back(list) == [item |-> list[Len(list)], rest |-> SubSeq(list, 1, Len(list) - 1)]

(***************************************************************************)
(* draw_solution_path: walk the parent links from end_point until None.    *)
(* The list is in the order collected (end_point first); the source paints *)
(* it and never reverses it.                                               *)
(***************************************************************************)
\* Faulty variant: the list is reversed into start-to-goal order.
RECURSIVE walk_parents(_, _)
walk_parents(par, cur) ==
  IF cur = None THEN <<>>
  ELSE <<cur>> \o walk_parents(par, DictGet(par, cur))

draw_solution_path(par, goal) == walk_parents(par, goal)

(***************************************************************************)
(* One step of each animate function, after its solving and paused checks. *)
(* s is the search state as a record; again says whether the step ends by  *)
(* scheduling itself (self.after).                                         *)
(***************************************************************************)
\* The branch "if not self.search_nodes" up to its message box: the box is shown
\* while solving is still True; solving is set to False when the box has returned.
no_solution(s) ==
  [s EXCEPT !.message = "No Solution", !.dialogs = Append(@, "No Solution"), !.again = FALSE]

\* Faulty variant: the walk back starts at the parent of the goal.
goal_reached_path_from_parent(s, goal) ==
  [s EXCEPT !.solving = FALSE, !.again = FALSE, !.message = "Maze Solved",
            !.dialogs = Append(@, "Maze Solved"),
            !.path = draw_solution_path(s.parents, DictGet(s.parents, goal))]

\* The branch "if current == self.end_point": solving is set to False, the path is
\* drawn and the message box is the last statement.
goal_reached(s, goal) ==
  [s EXCEPT !.solving = FALSE, !.again = FALSE, !.message = "Maze Solved",
            !.dialogs = Append(@, "Maze Solved"),
            !.path = draw_solution_path(s.parents, goal)]

\* Faulty variant: a cell that already has a parent is recorded and appended again.
visit_unseen_overwriting(m, s, cur, nx, ny) ==
  IF InBounds(m, nx, ny) /\ Cell(m, nx, ny) = 0
  THEN [s EXCEPT !.parents = DictSet(@, <<nx, ny>>, cur),
                 !.search_nodes = Append(@, <<nx, ny>>),
                 !.painted = @ \cup {<<nx, ny>>}]
  ELSE s

\* The loop body of animate_bfs and animate_dfs for neighbour <<nx, ny>> of cur.
visit_unseen(m, s, cur, nx, ny) ==
  IF InBounds(m, nx, ny) /\ Cell(m, nx, ny) = 0 /\ <<nx, ny>> \notin DOMAIN s.parents
  THEN [s EXCEPT !.parents = DictSet(@, <<nx, ny>>, cur),
                 !.search_nodes = Append(@, <<nx, ny>>),
                 !.painted = @ \cup {<<nx, ny>>}]
  ELSE s

RECURSIVE expand_unseen(_, _, _, _)
expand_unseen(m, s, cur, i) ==
  IF i > Len(DIRS) THEN s
  ELSE expand_unseen(m, visit_unseen(m, s, cur, cur[1] + DIRS[i][1], cur[2] + DIRS[i][2]), cur, i + 1)

list_step(m, goal, s, taken) ==
  LET s1 == [s EXCEPT !.search_nodes = taken.rest, !.popped = taken.item]
  IN IF taken.item = goal THEN goal_reached(s1, goal)
     ELSE [expand_unseen(m, s1, taken.item, 1) EXCEPT !.again = TRUE]

bfs_step(m, goal, s) ==
  IF s.search_nodes = <<>> THEN no_solution(s)
  ELSE list_step(m, goal, s, pop_front(s.search_nodes))

dfs_step(m, goal, s) ==
  IF s.search_nodes = <<>> THEN no_solution(s)
  ELSE list_step(m, goal, s, pop_back(s.search_nodes))

\* Faulty variant: an equal cost is taken for an improvement.
improves_on_equal(dist, n, cost) == n \notin DOMAIN dist \/ cost <= dist[n]

\* if (nx, ny) not in self.distances or new_cost < self.distances[(nx, ny)]
improves(dist, n, cost) == n \notin DOMAIN dist \/ cost < dist[n]

\* Faulty variant: the cost of the popped entry is passed on as it is.
new_cost_unchanged(cost) == cost

\* new_cost = cost + 1
new_cost(cost) == cost + 1

\* The loop body of animate_dijkstra.
relax_dijkstra(m, s, cur, cost, nx, ny) ==
  IF InBounds(m, nx, ny) /\ Cell(m, nx, ny) = 0 /\ improves(s.distances, <<nx, ny>>, new_cost(cost))
  THEN [s EXCEPT !.distances = DictSet(@, <<nx, ny>>, new_cost(cost)),
                 !.parents = DictSet(@, <<nx, ny>>, cur),
                 !.search_nodes = heappush(@, <<new_cost(cost), <<nx, ny>>>>),
                 !.painted = @ \cup {<<nx, ny>>}]
  ELSE s

RECURSIVE expand_dijkstra(_, _, _, _, _)
expand_dijkstra(m, s, cur, cost, i) ==
  IF i > Len(DIRS) THEN s
  ELSE expand_dijkstra(m, relax_dijkstra(m, s, cur, cost, cur[1] + DIRS[i][1], cur[2] + DIRS[i][2]),
                       cur, cost, i + 1)

dijkstra_step(m, goal, s) ==
  IF s.search_nodes = <<>> THEN no_solution(s)
  ELSE LET taken == heappop(s.search_nodes)
           cost == taken.item[1]
           current == taken.item[2]
           s1 == [s EXCEPT !.search_nodes = taken.rest, !.popped = taken.item]
       IN IF current = goal THEN goal_reached(s1, goal)
          ELSE [expand_dijkstra(m, s1, current, cost, 1) EXCEPT !.again = TRUE]

\* Faulty variant: a step counts twice.
new_g_doubled(g) == g + 2

\* new_g = g + 1
new_g(g) == g + 1

\* h = abs(nx - self.end_point[0]) + abs(ny - self.end_point[1])
heuristic(nx, ny, goal) == Abs(nx - goal[1]) + Abs(ny - goal[2])

\* The loop body of animate_astar.
relax_astar(m, goal, s, cur, g, nx, ny) ==
  IF InBounds(m, nx, ny) /\ Cell(m, nx, ny) = 0 /\ improves(s.distances, <<nx, ny>>, new_g(g))
  THEN [s EXCEPT !.distances = DictSet(@, <<nx, ny>>, new_g(g)),
                 !.parents = DictSet(@, <<nx, ny>>, cur),
                 !.search_nodes = heappush(@, <<new_g(g) + heuristic(nx, ny, goal), new_g(g), <<nx, ny>>>>),
                 !.painted = @ \cup {<<nx, ny>>}]
  ELSE s

RECURSIVE expand_astar(_, _, _, _, _, _)
expand_astar(m, goal, s, cur, g, i) ==
  IF i > Len(DIRS) THEN s
  ELSE expand_astar(m, goal, relax_astar(m, goal, s, cur, g, cur[1] + DIRS[i][1], cur[2] + DIRS[i][2]),
                    cur, g, i + 1)

astar_step(m, goal, s) ==
  IF s.search_nodes = <<>> THEN no_solution(s)
  ELSE LET taken == heappop(s.search_nodes)
           g == taken.item[2]
           current == taken.item[3]
           s1 == [s EXCEPT !.search_nodes = taken.rest, !.popped = taken.item]
       IN IF current = goal THEN goal_reached(s1, goal)
          ELSE [expand_astar(m, goal, s1, current, g, 1) EXCEPT !.again = TRUE]

\* The shape of the entries an animate function works on: coordinates <<x, y>> for
\* animate_bfs and animate_dfs, <<cost, <<x, y>>>> for animate_dijkstra and
\* <<f, g, <<x, y>>>> for animate_astar.
kind_of(fn) == IF fn \in {"Dijkstra", "A*"} THEN fn ELSE "xy"

\* heapq.heappop on a list of coordinates: tuples of two integers, compared as such.
heappop_xy(list) ==
  LET wrapped == [i \in DOMAIN list |-> <<list[i][1], <<list[i][2], 0>>>>]
      taken == heappop(wrapped)
  IN [item |-> <<taken.item[1], taken.item[2][1]>>,
      rest |-> [i \in DOMAIN taken.rest |-> <<taken.rest[i][1], taken.rest[i][2][1]>>]]

\* The exception an animate function meets on an entry of another shape, after it
\* has popped the entry: unpacking it fails (ValueError: a tuple of the wrong length;
\* TypeError: an integer unpacked, or a tuple added to an integer).
unpack_error(fn, kind) ==
  CASE fn \in {"BFS", "DFS"} /\ kind = "Dijkstra" -> "TypeError"
    [] fn \in {"BFS", "DFS"} /\ kind = "A*" -> "ValueError"
    [] fn = "Dijkstra" /\ kind = "xy" -> "TypeError"
    [] fn = "Dijkstra" /\ kind = "A*" -> "ValueError"
    [] fn = "A*" -> "ValueError"

\* The pop of the animate function fn on a list whose entries have shape kind.
take(fn, kind, list) ==
  CASE fn = "BFS" -> pop_front(list)
    [] fn = "DFS" -> pop_back(list)
    [] OTHER -> IF kind = "xy" THEN heappop_xy(list) ELSE heappop(list)

\* A step on entries seeded for an animate function of another shape: the entry is
\* popped, the exception ends the callback and nothing is scheduled.
mismatched_step(fn, s) ==
  LET taken == take(fn, s.entry_kind, s.search_nodes)
  IN [s EXCEPT !.search_nodes = taken.rest, !.popped = taken.item,
               !.raised = unpack_error(fn, s.entry_kind), !.again = FALSE]

\* The step of the animate function named fn.
step(fn, m, goal, s) ==
  IF s.search_nodes # <<>> /\ kind_of(fn) # s.entry_kind THEN mismatched_step(fn, s)
  ELSE CASE fn = "BFS" -> bfs_step(m, goal, s)
         [] fn = "DFS" -> dfs_step(m, goal, s)
         [] fn = "Dijkstra" -> dijkstra_step(m, goal, s)
         [] fn = "A*" -> astar_step(m, goal, s)

\* The animate function on_solve_maze calls for algo (BFS for an unknown name).
animate_for(algo) == IF algo \in {"DFS", "Dijkstra", "A*"} THEN algo ELSE "BFS"

\* Faulty variant: the start is not entered into the parent map.
seed_without_root(algo, start, s) ==
  [s EXCEPT !.solving = TRUE,
            !.search_nodes = CASE algo = "Dijkstra" -> heappush(<<>>, <<0, start>>)
                               [] algo = "A*" -> heappush(<<>>, <<0, 0, start>>)
                               [] OTHER -> <<start>>,
            !.parents = EmptyDict,
            !.distances = IF algo \in {"Dijkstra", "A*"} THEN DictSet(EmptyDict, start, 0)
                          ELSE EmptyDict,
            !.entry_kind = kind_of(animate_for(algo)),
            !.message = "",
            !.steps = 0]

\* The search state on_solve_maze and on_restart_search set up for algo.
seed(algo, start, s) ==
  [s EXCEPT !.solving = TRUE,
            !.search_nodes = CASE algo = "Dijkstra" -> heappush(<<>>, <<0, start>>)
                               [] algo = "A*" -> heappush(<<>>, <<0, 0, start>>)
                               [] OTHER -> <<start>>,
            !.parents = DictSet(EmptyDict, start, None),
            !.distances = IF algo \in {"Dijkstra", "A*"} THEN DictSet(EmptyDict, start, 0)
                          ELSE EmptyDict,
            !.entry_kind = kind_of(animate_for(algo)),
            !.message = "",
            !.steps = 0]


(***************************************************************************)
(* generate_maze.                                                          *)
(***************************************************************************)
\* Faulty variant: an even size is kept.
force_odd_unchanged(n) == n

\* if width % 2 == 0: width += 1
force_odd(n) == IF n % 2 = 0 THEN n + 1 ELSE n

\* maze = [[1 for _ in range(width)] for _ in range(height)]
wall_grid(width, height) == [y \in 1 .. height |-> [x \in 1 .. width |-> 1]]

set_cell(m, x, y, v) == [m EXCEPT ![y + 1][x + 1] = v]

\* The two-away steps tried from a cell, in the order of the source.
CARVE_DIRS == << <<2, 0>>, <<-2, 0>>, <<0, 2>>, <<0, -2>> >>

\* if 0 < nx < width and 0 < ny < height and maze[ny][nx] == 1
uncarved(m, nx, ny) == 0 < nx /\ nx < Cols(m) /\ 0 < ny /\ ny < Rows(m) /\ Cell(m, nx, ny) = 1

\* The list neighbors built for cell c: tuples <<nx, ny, dx, dy>>.
RECURSIVE carve_neighbors(_, _, _)
carve_neighbors(m, c, i) ==
  IF i > Len(CARVE_DIRS) THEN <<>>
  ELSE LET dx == CARVE_DIRS[i][1]
           dy == CARVE_DIRS[i][2]
       IN (IF uncarved(m, c[1] + dx, c[2] + dy) THEN << <<c[1] + dx, c[2] + dy, dx, dy>> >> ELSE <<>>)
          \o carve_neighbors(m, c, i + 1)

\* Python's floor division by two of a step of 2, 0 or -2.
half(d) == IF d < 0 THEN -((-d) \div 2) ELSE d \div 2

\* Faulty variant: the wall between the cell and the chosen neighbour is left standing.
carve_without_opening(m, c, n) == set_cell(m, n[1], n[2], 0)

\* Remove the wall between cell c and the chosen neighbour n, and open n.
carve(m, c, n) ==
  set_cell(set_cell(m, c[1] + half(n[3]), c[2] + half(n[4]), 0), n[1], n[2], 0)

\* Faulty variant: the last cell of the list is removed, whichever cell was picked.
list_remove_last(list, v) == SubSeq(list, 1, Len(list) - 1)

\* list.remove(v): the list without the first v.
RECURSIVE list_remove(_, _)
list_remove(list, v) ==
  IF list = <<>> THEN <<>>
  ELSE IF Head(list) = v THEN Tail(list)
  ELSE <<Head(list)>> \o list_remove(Tail(list), v)

\* Lines 26-37: the grid of walls of forced-odd size with (1,1) opened;
\* maze[1][1] = 0 raises IndexError when the grid has no cell (1,1).
generate_begin(width, height) ==
  LET w == force_odd(width)
      h == force_odd(height)
  IN IF h < 2 \/ w < 2 THEN [raised |-> "IndexError", maze |-> None]
     ELSE [raised |-> "", maze |-> set_cell(wall_grid(w, h), 1, 1, 0)]

\* One iteration of the while loop with the cell at position k of cell_list
\* chosen; every choice of neighbour gives one outcome.
generate_iterate(m, list, k) ==
  LET c == list[k]
      nb == carve_neighbors(m, c, 1)
  IN IF nb # <<>>
     THEN {[maze |-> carve(m, c, nb[j]), cell_list |-> Append(list, <<nb[j][1], nb[j][2]>>)] :
             j \in DOMAIN nb}
     ELSE {[maze |-> m, cell_list |-> list_remove(list, c)]}

\* The grids the loop can end with from the loop states in todo.
RECURSIVE generate_finish(_, _)
generate_finish(todo, finished) ==
  IF todo = {} THEN finished
  ELSE generate_finish(
         UNION {UNION {generate_iterate(t.maze, t.cell_list, k) : k \in DOMAIN t.cell_list} :
                  t \in {u \in todo : u.cell_list # <<>>}},
         finished \cup {t.maze : t \in {u \in todo : u.cell_list = <<>>}})

\* The grids generate_maze(width, height) can return, over all random choices.
generate_maze(width, height) ==
  LET g == generate_begin(width, height)
  IN IF g.raised # "" THEN {}
     ELSE generate_finish({[maze |-> g.maze, cell_list |-> << <<1, 1>> >>]}, {})

(***************************************************************************)
(* The application state as a record, and back.                            *)
(***************************************************************************)
Cur ==
  [solving |-> solving, search_nodes |-> search_nodes, parents |-> parents,
   distances |-> distances, painted |-> painted, path |-> path, message |-> message,
   dialogs |-> dialogs, popped |-> popped, steps |-> steps, entry_kind |-> entry_kind,
   raised |-> raised, again |-> FALSE]

Install(r) ==
  /\ solving' = r.solving
  /\ search_nodes' = r.search_nodes
  /\ parents' = r.parents
  /\ distances' = r.distances
  /\ painted' = r.painted
  /\ path' = r.path
  /\ message' = r.message
  /\ dialogs' = r.dialogs
  /\ popped' = r.popped
  /\ steps' = r.steps
  /\ entry_kind' = r.entry_kind
  /\ raised' = r.raised

RemoveAt(q, i) == SubSeq(q, 1, i - 1) \o SubSeq(q, i + 1, Len(q))

\* self.after(ms, fn)
after(q, ms, fn) == Append(q, [fn |-> fn, ms |-> ms])

\* Faulty variant: the paused check is missing.
animate_ignoring_pause(fn, s, q) ==
  IF ~s.solving THEN [s |-> s, q |-> q]
  ELSE LET r == step(fn, maze, end_point, [s EXCEPT !.steps = @ + 1])
       IN [s |-> r, q |-> IF r.again THEN after(q, animation_delay_var, fn) ELSE q]

\* Faulty variant: the solving check is missing.
animate_ignoring_solving(fn, s, q) ==
  IF paused THEN [s |-> s, q |-> after(q, PAUSE_POLL_MS, fn)]
  ELSE LET r == step(fn, maze, end_point, [s EXCEPT !.steps = @ + 1])
       IN [s |-> r, q |-> IF r.again THEN after(q, animation_delay_var, fn) ELSE q]

\* An animate function, called with search state s while the callbacks in q are
\* scheduled, up to its return or to the message box it opens: the state it leaves
\* and the callbacks scheduled then.
animate(fn, s, q) ==
  IF ~s.solving THEN [s |-> s, q |-> q]
  ELSE IF paused THEN [s |-> s, q |-> after(q, PAUSE_POLL_MS, fn)]
  ELSE LET r == step(fn, maze, end_point, [s EXCEPT !.steps = @ + 1])
       IN [s |-> r, q |-> IF r.again THEN after(q, animation_delay_var, fn) ELSE q]

Run(out) == Install(out.s) /\ pending' = out.q

\* The innermost message box returns.  The statement after the "No Solution" box
\* is self.solving = False; every other box is the last statement of its handler.
close_box(s) ==
  [s EXCEPT !.dialogs = SubSeq(@, 1, Len(@) - 1),
            !.solving = IF s.dialogs[Len(s.dialogs)] = "No Solution" THEN FALSE ELSE @]

(***************************************************************************)
(* The handlers of the application, the timer and the message boxes.  A    *)
(* message box is modal: while one is open the buttons, the slider and the *)
(* canvas of the main window take no input, and the event loop that runs   *)
(* inside the box still fires the callbacks that come due.                 *)
(***************************************************************************)
modal == dialogs # <<>>

\* The grids generate_maze can return for each size up to the largest one requested.
MaxRequest == IF GridW > MaxAppWidth THEN (IF GridW > MaxAppHeight THEN GridW ELSE MaxAppHeight)
              ELSE (IF MaxAppWidth > MaxAppHeight THEN MaxAppWidth ELSE MaxAppHeight)

GeneratedMazes == [w \in 1 .. MaxRequest, h \in 1 .. MaxRequest |-> generate_maze(w, h)]

\* on_generate_maze, with the size w, h read from the two entries.
on_generate_maze(w, h) ==
  /\ ~modal
  /\ IF generate_begin(w, h).raised # ""
     THEN /\ raised' = generate_begin(w, h).raised
          /\ UNCHANGED <<maze, start_point, end_point, solving, parents, search_nodes,
                         distances, painted, path>>
     ELSE /\ maze' \in GeneratedMazes[w, h]
          /\ start_point' = None
          /\ end_point' = None
          /\ solving' = FALSE
          /\ parents' = EmptyDict
          /\ search_nodes' = <<>>
          /\ distances' = EmptyDict
          /\ painted' = {}
          /\ path' = <<>>
          /\ UNCHANGED raised
  /\ UNCHANGED <<algorithm_var, animation_delay_var, paused, pending, message, dialogs, popped,
                 steps, solves, entry_kind, selection_mode, gen_vars>>

on_select_start ==
  /\ ~modal
  /\ selection_mode' = "start"
  /\ dialogs' = Append(dialogs, "Select Start")
  /\ UNCHANGED <<message, maze, start_point, end_point, algorithm_var, animation_delay_var, paused,
                 solving, search_nodes, parents, distances, pending, painted, path, popped,
                 steps, solves, entry_kind, raised, gen_vars>>

on_select_end ==
  /\ ~modal
  /\ selection_mode' = "end"
  /\ dialogs' = Append(dialogs, "Select End")
  /\ UNCHANGED <<message, maze, start_point, end_point, algorithm_var, animation_delay_var, paused,
                 solving, search_nodes, parents, distances, pending, painted, path, popped,
                 steps, solves, entry_kind, raised, gen_vars>>

\* Faulty variant: a click on a wall is accepted too.
clickable_any_cell(m, x, y) == TRUE

\* if self.maze[y][x] != 0: return
clickable(m, x, y) == Cell(m, x, y) = 0

\* on_canvas_click on the cell <<x, y>> the pointer is over.
on_canvas_click(x, y) ==
  /\ ~modal
  /\ IF maze = None
     THEN UNCHANGED <<start_point, end_point, selection_mode, painted, path, raised>>
     ELSE IF ~(y < Rows(maze) /\ x < Cols(maze))
     THEN /\ raised' = "IndexError"
          /\ UNCHANGED <<start_point, end_point, selection_mode, painted, path>>
     ELSE IF ~clickable(maze, x, y) \/ selection_mode = NoAttr
     THEN UNCHANGED <<start_point, end_point, selection_mode, painted, path, raised>>
     ELSE /\ start_point' = IF selection_mode = "start" THEN <<x, y>> ELSE start_point
          /\ end_point' = IF selection_mode = "end" THEN <<x, y>> ELSE end_point
          /\ selection_mode' = NoAttr
          /\ painted' = {}
          /\ path' = <<>>
          /\ UNCHANGED raised
  /\ UNCHANGED <<maze, algorithm_var, animation_delay_var, paused, solving, search_nodes,
                 parents, distances, pending, message, dialogs, popped, steps, solves,
                 entry_kind, gen_vars>>

\* An algorithm is picked in the drop-down.
select_algorithm ==
  /\ ~modal
  /\ \E a \in Algorithms \ {algorithm_var} : algorithm_var' = a
  /\ UNCHANGED <<maze, start_point, end_point, animation_delay_var, paused, pending, solves,
                 ui_vars, gen_vars, engine_vars>>

\* The count of searches started, which the model keeps up to MaxSolves.
count_solve == solves' = IF solves < MaxSolves THEN solves + 1 ELSE solves

\* on_solve_maze with a maze and both points set: seed the search and call the
\* animate function of the chosen algorithm.
solve_body ==
  /\ Run(animate(animate_for(algorithm_var), seed(algorithm_var, start_point, Cur), pending))
  /\ count_solve
  /\ UNCHANGED <<maze, start_point, end_point, algorithm_var, animation_delay_var, paused, ui_vars, gen_vars>>

\* on_restart_search with a maze and both points set: draw_maze clears the canvas first.
restart_body ==
  /\ Run(animate(animate_for(algorithm_var),
                 seed(algorithm_var, start_point, [Cur EXCEPT !.painted = {}, !.path = <<>>]),
                 pending))
  /\ count_solve
  /\ UNCHANGED <<maze, start_point, end_point, algorithm_var, animation_delay_var, paused, ui_vars, gen_vars>>

\* The error box of on_solve_maze with the text given.
show_error(text) ==
  /\ dialogs' = Append(dialogs, text)
  /\ UNCHANGED <<maze, start_point, end_point, algorithm_var, animation_delay_var, paused,
                 solving, search_nodes, parents, distances, pending, painted, path, message,
                 popped, steps, solves, entry_kind, raised, ui_vars, gen_vars>>

on_solve_maze ==
  /\ ~modal
  /\ IF maze = None THEN show_error("Error: Generate a maze first!")
     ELSE IF start_point = None \/ end_point = None
     THEN show_error("Error: Please select both start and end points!")
     ELSE solve_body

on_restart_search ==
  /\ ~modal
  /\ IF maze = None \/ start_point = None \/ end_point = None
     THEN UNCHANGED <<maze, start_point, end_point, algorithm_var, animation_delay_var, paused,
                      pending, solves, ui_vars, gen_vars, engine_vars>>
     ELSE restart_body

on_new_maze ==
  /\ ~modal
  /\ maze' = None
  /\ start_point' = None
  /\ end_point' = None
  /\ solving' = FALSE
  /\ painted' = {}
  /\ path' = <<>>
  /\ UNCHANGED <<algorithm_var, animation_delay_var, paused, search_nodes, parents, distances,
                 pending, message, dialogs, popped, steps, solves, entry_kind, raised, ui_vars,
                 gen_vars>>

toggle_pause ==
  /\ ~modal
  /\ paused' = ~paused
  /\ UNCHANGED <<maze, start_point, end_point, algorithm_var, animation_delay_var, pending, solves, ui_vars, gen_vars>>
  /\ UNCHANGED engine_vars

\* The ends of the delay slider.
Delays == {DELAY_MIN, DELAY_MAX}

\* The delay slider is moved.
set_delay ==
  /\ ~modal
  /\ \E d \in Delays \ {animation_delay_var} : animation_delay_var' = d
  /\ UNCHANGED <<maze, start_point, end_point, algorithm_var, paused, pending, solves, ui_vars, gen_vars>>
  /\ UNCHANGED engine_vars

\* A scheduled callback comes due and the event loop calls it.
timer_fires ==
  \E i \in DOMAIN pending :
    /\ Run(animate(pending[i].fn, Cur, RemoveAt(pending, i)))
    /\ UNCHANGED <<maze, start_point, end_point, algorithm_var, animation_delay_var, paused, solves, ui_vars, gen_vars>>

\* The innermost message box is dismissed and the statement after it runs.
dialog_closed ==
  /\ modal
  /\ Install(close_box(Cur))
  /\ UNCHANGED <<maze, start_point, end_point, algorithm_var, animation_delay_var, paused,
                 pending, solves, ui_vars, gen_vars>>

(***************************************************************************)
(* The state __init__ leaves.                                              *)
(***************************************************************************)
Init ==
  /\ maze = None
  /\ start_point = None
  /\ end_point = None
  /\ algorithm_var = "BFS"
  /\ animation_delay_var = DELAY_DEFAULT
  /\ paused = FALSE
  /\ solving = FALSE
  /\ search_nodes = <<>>
  /\ parents = EmptyDict
  /\ distances = EmptyDict
  /\ pending = <<>>
  /\ painted = {}
  /\ path = <<>>
  /\ message = ""
  /\ dialogs = <<>>
  /\ popped = None
  /\ steps = 0
  /\ solves = 0
  /\ entry_kind = "xy"
  /\ raised = ""
  /\ selection_mode = NoAttr
  /\ events = 0
  /\ gen_pc = "idle"
  /\ gen_width = 0
  /\ gen_height = 0
  /\ gen_maze = None
  /\ cell_list = <<>>

(***************************************************************************)
(* One search at a time: the user generates a maze of a size that yields a *)
(* grid, picks the two points and the algorithm, and then starts searches  *)
(* with Solve or Restart, up to MaxSolves of them; the searches are driven *)
(* by their timer callbacks while the user pauses, resumes and moves the   *)
(* delay slider.  Maze, points and algorithm are left alone once the first *)
(* search has been started.                                                *)
(***************************************************************************)
setup == solves = 0

Next ==
  \/ setup /\ (\E w \in 2 .. GridW, h \in 2 .. GridH : on_generate_maze(w, h)) /\ UNCHANGED events
  \/ setup /\ on_new_maze /\ UNCHANGED events
  \/ setup /\ on_select_start /\ UNCHANGED events
  \/ setup /\ on_select_end /\ UNCHANGED events
  \/ /\ setup /\ maze # None
     /\ \E x \in 0 .. Cols(maze) - 1, y \in 0 .. Rows(maze) - 1 : on_canvas_click(x, y)
     /\ UNCHANGED events
  \/ setup /\ select_algorithm /\ UNCHANGED events
  \/ solves < MaxSolves /\ on_solve_maze /\ UNCHANGED events
  \/ solves < MaxSolves /\ on_restart_search /\ UNCHANGED events
  \/ toggle_pause /\ UNCHANGED events
  \/ set_delay /\ UNCHANGED events
  \/ timer_fires /\ UNCHANGED events
  \/ dialog_closed /\ UNCHANGED events

Spec == Init /\ [][Next]_vars

(***************************************************************************)
(* The application with any user: every button, the canvas click with the  *)
(* pointer anywhere, any size in the two entries, and searches started     *)
(* while callbacks of earlier searches are still scheduled (up to          *)
(* MaxPending scheduled callbacks), for MaxEvents presses and clicks.      *)
(***************************************************************************)
\* The main loop runs one more handler for the user, while the bound allows.
count_event == events < MaxEvents /\ events' = events + 1

AppNext ==
  \/ count_event /\ \E w \in 1 .. MaxAppWidth, h \in 1 .. MaxAppHeight : on_generate_maze(w, h)
  \/ count_event /\ on_new_maze
  \/ count_event /\ on_select_start
  \/ count_event /\ on_select_end
  \/ count_event /\ \E x \in 0 .. MaxAppWidth, y \in 0 .. MaxAppHeight : on_canvas_click(x, y)
  \/ count_event /\ select_algorithm
  \/ count_event /\ Len(pending) < MaxPending /\ on_solve_maze
  \/ count_event /\ Len(pending) < MaxPending /\ on_restart_search
  \/ count_event /\ toggle_pause
  \/ timer_fires /\ UNCHANGED events
  \/ dialog_closed /\ UNCHANGED events

SpecApp == Init /\ [][AppNext]_vars

(***************************************************************************)
(* generate_maze step by step: the request, each iteration of the carving  *)
(* loop with its two random choices, and the return of the grid.           *)
(***************************************************************************)
gen_frame ==
  UNCHANGED <<maze, start_point, end_point, algorithm_var, animation_delay_var, paused,
              pending, solves, ui_vars, engine_vars, events>>

\* generate_maze is called with the size read from the two entries.
generate_call ==
  /\ gen_pc = "idle"
  /\ \E w \in 1 .. MaxGenDim, h \in 1 .. MaxGenDim :
       /\ gen_width' = w
       /\ gen_height' = h
       /\ LET g == generate_begin(w, h)
          IN IF g.raised # ""
             THEN gen_pc' = g.raised /\ UNCHANGED <<gen_maze, cell_list>>
             ELSE gen_pc' = "loop" /\ gen_maze' = g.maze /\ cell_list' = << <<1, 1>> >>
  /\ gen_frame

\* One iteration of while cell_list.
generate_loop ==
  /\ gen_pc = "loop"
  /\ cell_list # <<>>
  /\ \E k \in DOMAIN cell_list :
       \E r \in generate_iterate(gen_maze, cell_list, k) :
         gen_maze' = r.maze /\ cell_list' = r.cell_list
  /\ UNCHANGED <<gen_pc, gen_width, gen_height>>
  /\ gen_frame

\* The loop ends and the grid is returned.
generate_return ==
  /\ gen_pc = "loop"
  /\ cell_list = <<>>
  /\ gen_pc' = "returned"
  /\ UNCHANGED <<gen_width, gen_height, gen_maze, cell_list>>
  /\ gen_frame

GenNext == generate_call \/ generate_loop \/ generate_return

SpecGen == Init /\ [][GenNext]_vars

(***************************************************************************)
(* generate_maze with a carving loop that keeps running until it returns.  *)
(***************************************************************************)
FairSpecGen == SpecGen /\ WF_vars(GenNext)

(***************************************************************************)
(* Reference notions the claims are stated with: 4-connected reachability, *)
(* shortest path length and simple paths, computed from the grid alone.    *)
(***************************************************************************)
Adjacent(a, b) == Abs(a[1] - b[1]) + Abs(a[2] - b[2]) = 1
PassageNeighbours(m, c) == {d \in PassageCells(m) : Adjacent(c, d)}

RECURSIVE DistFrom(_, _, _, _, _)
DistFrom(m, frontier, seen, g, d) ==
  IF g \in frontier THEN d
  ELSE IF frontier = {} THEN -1
  ELSE LET nxt == (UNION {PassageNeighbours(m, c) : c \in frontier}) \ seen
       IN DistFrom(m, nxt, seen \cup nxt, g, d + 1)

\* Edges on a shortest 4-connected passage path from s to g, -1 if there is none.
ShortestLen(m, s, g) == DistFrom(m, {s}, {s}, g, 0)

RECURSIVE Closure(_, _)
Closure(m, seen) ==
  LET nxt == seen \cup UNION {PassageNeighbours(m, c) : c \in seen}
  IN IF nxt = seen THEN seen ELSE Closure(m, nxt)

ReachableFrom(m, s) == Closure(m, {s})
Solvable == end_point \in ReachableFrom(maze, start_point)

RECURSIVE PathsFrom(_, _, _)
PathsFrom(m, p, g) ==
  IF p[Len(p)] = g THEN {p}
  ELSE UNION {PathsFrom(m, Append(p, d), g) :
                d \in {e \in PassageNeighbours(m, p[Len(p)]) : \A i \in DOMAIN p : p[i] # e}}

\* The simple passage paths from s to g, each from s to g.
SimplePaths(m, s, g) == PathsFrom(m, <<s>>, g)

NoDuplicates(q) == \A i, j \in DOMAIN q : q[i] = q[j] => i = j

Elems(q) == {q[i] : i \in DOMAIN q}

\* A search was started and has ended; how it ended.
Done == solves > 0 /\ ~solving
GoalReached == Done /\ message = "Maze Solved"
Exhausted == Done /\ message = "No Solution"

\* A search run from its seed with no pause and each message box dismissed at once,
\* by the step of the animate function fn.
RECURSIVE run_to_end(_, _, _, _)
run_to_end(fn, m, goal, s) ==
  IF ~s.solving THEN s
  ELSE LET r == step(fn, m, goal, [s EXCEPT !.steps = @ + 1])
       IN run_to_end(fn, m, goal, IF r.dialogs # <<>> THEN close_box(r) ELSE r)

Blank ==
  [solving |-> FALSE, search_nodes |-> <<>>, parents |-> EmptyDict, distances |-> EmptyDict,
   painted |-> {}, path |-> <<>>, message |-> "", dialogs |-> <<>>, popped |-> None, steps |-> 0,
   entry_kind |-> "xy", raised |-> "", again |-> FALSE]

Uninterrupted(algo) == run_to_end(animate_for(algo), maze, end_point, seed(algo, start_point, Blank))

C9_StartToGoalOrder ==
  GoalReached => (path[1] = start_point /\ path[Len(path)] = end_point)

(***************************************************************************)
(* C10 as claimed: when exactly one simple passage path joins start and    *)
(* goal, every algorithm reports that path, from the start to the goal:    *)
(* (1,1), (1,2), (1,3) for the corridor from (1,1) to (1,3).               *)
(***************************************************************************)
C10_FixturePathStartFirst ==
  /\ (Done /\ Cardinality(SimplePaths(maze, start_point, end_point)) = 1)
       => path \in SimplePaths(maze, start_point, end_point)
  /\ (Done /\ start_point = <<1, 1>> /\ end_point = <<1, 3>> /\ Cell(maze, 1, 2) = 0)
       => path = << <<1, 1>>, <<1, 2>>, <<1, 3>> >>

(***************************************************************************)
(* C4: pausing, resuming and moving the delay slider do not change what a  *)
(* search ends with: the path, the outcome, the parent map and the visited *)
(* cells are those of the run with no pause.  A callback that fires while  *)
(* the search is paused leaves the search state as it is and only          *)
(* schedules itself again after the fixed polling interval.                *)
(***************************************************************************)
SameAsUninterrupted ==
  LET u == Uninterrupted(algorithm_var)
  IN /\ path = u.path
     /\ message = u.message
     /\ parents = u.parents
     /\ distances = u.distances
     /\ search_nodes = u.search_nodes
     /\ painted = u.painted
     /\ steps = u.steps

PausedTickOnlyReschedules ==
  (paused /\ solving /\ timer_fires)
    => /\ UNCHANGED engine_vars
       /\ \E i \in DOMAIN pending :
            pending' = after(RemoveAt(pending, i), PAUSE_POLL_MS, pending[i].fn)

C4_PauseTransparent ==
  /\ [](Done => SameAsUninterrupted)
  /\ [][PausedTickOnlyReschedules]_vars

\* A search paused after two steps or more whose callback fired while paused: the
\* polling callback is scheduled and the frontier still holds cells.
C4_Witness ==
  /\ paused /\ solving /\ steps >= 2 /\ search_nodes # <<>>
  /\ pending # <<>> /\ pending[1].ms = PAUSE_POLL_MS

(***************************************************************************)
(* The searches with a timer that fires the callbacks that come due.  A    *)
(* callback of a running search that is not paused passes the two checks   *)
(* of its animate function and takes one step, which steps counts.  Such a *)
(* callback does not stay unfired for ever: weak fairness of that step of  *)
(* timer_fires.  Nothing is asked of the user, and nothing of a callback   *)
(* that comes due while the search is paused, which only polls.            *)
(***************************************************************************)
TimerEnabled ==
  \E i \in DOMAIN pending :
    animate(pending[i].fn, Cur, RemoveAt(pending, i)) # [s |-> Cur, q |-> pending]

timer_step == solving /\ ~paused /\ pending # <<>> /\ steps' = steps + 1

TimerStepIsTimerFires ==
  /\ [](solving /\ ~paused /\ pending # <<>> => TimerEnabled)
  /\ [][(solving /\ ~paused /\ timer_fires) => timer_step]_vars
  /\ [][(timer_step /\ solves' = solves) => timer_fires]_vars

FairSpec == Spec /\ WF_steps(timer_step)

(***************************************************************************)
(* The searches on a grid that is given, as a test of the search does it:  *)
(* the caller assigns maze, start_point and end_point of a new MazeApp     *)
(* (any grid of FixtureW x FixtureH cells and four grids with corridors,   *)
(* cycles and cut-off parts; any two passage cells) and picks the          *)
(* algorithm; then Solve or Restart starts the search and the timer drives *)
(* it as in the application.  Such grids need not be ones generate_maze    *)
(* returns: they may have cycles, and the goal may be cut off.             *)
(***************************************************************************)
RECURSIVE AllRows(_)
AllRows(w) == IF w = 0 THEN {<<>>} ELSE {Append(r, b) : r \in AllRows(w - 1), b \in {0, 1}}

RECURSIVE AllGrids(_, _)
AllGrids(w, h) == IF h = 0 THEN {<<>>} ELSE {Append(g, r) : g \in AllGrids(w, h - 1), r \in AllRows(w)}

\* The single corridor (1,1) - (1,2) - (1,3) in a 5 x 5 grid.
CorridorGrid ==
  << <<1, 1, 1, 1, 1>>,
     <<1, 0, 1, 1, 1>>,
     <<1, 0, 1, 1, 1>>,
     <<1, 0, 1, 1, 1>>,
     <<1, 1, 1, 1, 1>> >>

\* A ring of passages around a wall.
RingGrid ==
  << <<0, 0, 0>>,
     <<0, 1, 0>>,
     <<0, 0, 0>> >>

\* A block of four passages with a cycle, and a column no path leads to.
BlockGrid ==
  << <<0, 0, 1, 0>>,
     <<0, 0, 1, 0>> >>

\* A wall between start and goal sides, with a short and a long way round.
DetourGrid ==
  << <<0, 0, 0, 0>>,
     <<0, 0, 0, 0>>,
     <<0, 1, 1, 0>>,
     <<0, 0, 0, 0>> >>

FixtureGrids == AllGrids(FixtureW, FixtureH) \cup {CorridorGrid, RingGrid, BlockGrid, DetourGrid}

EngineInit ==
  /\ maze \in FixtureGrids
  /\ start_point \in PassageCells(maze)
  /\ end_point \in PassageCells(maze)
  /\ algorithm_var \in Algorithms
  /\ animation_delay_var = DELAY_DEFAULT
  /\ paused = FALSE
  /\ solving = FALSE
  /\ search_nodes = <<>>
  /\ parents = EmptyDict
  /\ distances = EmptyDict
  /\ pending = <<>>
  /\ painted = {}
  /\ path = <<>>
  /\ message = ""
  /\ dialogs = <<>>
  /\ popped = None
  /\ steps = 0
  /\ solves = 0
  /\ entry_kind = "xy"
  /\ raised = ""
  /\ selection_mode = NoAttr
  /\ events = 0
  /\ gen_pc = "idle"
  /\ gen_width = 0
  /\ gen_height = 0
  /\ gen_maze = None
  /\ cell_list = <<>>

EngineNext ==
  \/ solves < MaxSolves /\ on_solve_maze /\ UNCHANGED events
  \/ solves < MaxSolves /\ on_restart_search /\ UNCHANGED events
  \/ toggle_pause /\ UNCHANGED events
  \/ set_delay /\ UNCHANGED events
  \/ timer_fires /\ UNCHANGED events
  \/ dialog_closed /\ UNCHANGED events

SpecEngine == EngineInit /\ [][EngineNext]_vars

FairSpecEngine == SpecEngine /\ WF_steps(timer_step)

\* The step of a search that ends it has shown its message box.
Terminal == message \in {"Maze Solved", "No Solution"}

(***************************************************************************)
(* C2 as claimed: when no pause lasts for ever, every search that is       *)
(* started reaches its outcome.                                            *)
(***************************************************************************)
C2_EndsUnlessPausedForEver == ([]<>(~paused)) => (solving ~> Terminal)

(***************************************************************************)
(* C2 amended: when from some point on the animation is not paused any     *)
(* more, every search that is started reaches its outcome, for each of the *)
(* four algorithms; the outcome is "Maze Solved" exactly when the goal is  *)
(* reachable from the start by 4-connected passage moves, and "No          *)
(* Solution" otherwise.                                                    *)
(***************************************************************************)
C2_EndsSolvedIffReachable ==
  /\ (<>[](~paused)) => (solving ~> Terminal)
  /\ [](Terminal => /\ (message = "Maze Solved") <=> Solvable
                    /\ (message = "No Solution") <=> ~Solvable)
  /\ [](Done => Terminal)

\* A Dijkstra search that was paused on its way ran out of cells after four steps
\* or more: the goal is cut off from the start.
C2_Witness ==
  /\ Exhausted /\ ~Solvable /\ steps >= 4
  /\ algorithm_var = "Dijkstra"

(***************************************************************************)
(* C6 as claimed: a search whose goal is not reachable from the start ends *)
(* with "No Solution" after at most as many step calls as there are        *)
(* passage cells reachable from the start.                                 *)
(***************************************************************************)
C6_StepsAtMostReachable ==
  (message = "No Solution" /\ ~Solvable)
    => steps <= Cardinality(ReachableFrom(maze, start_point))

(***************************************************************************)
(* C6 amended: such a search shows "No Solution" in the step call after    *)
(* the one that popped the last reachable cell: after as many step calls   *)
(* as there are passage cells reachable from the start, plus one; until    *)
(* then it has taken no more step calls than that.                         *)
(***************************************************************************)
C6_StepsAtMostReachablePlusOne ==
  ~Solvable =>
    /\ steps <= Cardinality(ReachableFrom(maze, start_point)) + 1
    /\ message = "No Solution" => steps = Cardinality(ReachableFrom(maze, start_point)) + 1
    /\ message # "Maze Solved"

\* A DFS search of four reachable cells or more, the goal cut off, ended one step call later.
C6_Witness ==
  /\ Exhausted /\ ~Solvable /\ algorithm_var = "DFS"
  /\ Cardinality(ReachableFrom(maze, start_point)) >= 4
  /\ steps = Cardinality(ReachableFrom(maze, start_point)) + 1

(***************************************************************************)
(* C8: in the grid generate_maze returns, every passage cell is reachable  *)
(* from (1,1) by 4-connected moves through passage cells.                  *)
(***************************************************************************)
C8_GeneratedMazeConnected ==
  gen_pc = "returned" =>
    /\ Cell(gen_maze, 1, 1) = 0
    /\ PassageCells(gen_maze) \subseteq ReachableFrom(gen_maze, <<1, 1>>)

\* A grid with the four cells (1,1), (3,1), (1,3), (3,3) carved was returned.
C8_Witness ==
  /\ gen_pc = "returned"
  /\ Rows(gen_maze) = 5 /\ Cols(gen_maze) = 5
  /\ {<<1, 1>>, <<3, 1>>, <<1, 3>>, <<3, 3>>} \subseteq PassageCells(gen_maze)

(***************************************************************************)
(* C5: once a step has shown "Maze Solved" or "No Solution", a further     *)
(* call of any of the four animate functions, and every callback that      *)
(* comes due, leaves frontier, parent map, cost map, solving flag, outcome *)
(* and path as they are, and once solving is False it changes nothing at   *)
(* all and schedules nothing.                                              *)
(***************************************************************************)
Ended == Terminal /\ ~solving

SearchResult(s) == <<s.search_nodes, s.parents, s.distances, s.solving, s.message, s.path>>

C5_StepAfterEndIsNoOp ==
  /\ Terminal =>
       /\ \A fn \in Algorithms : SearchResult(animate(fn, Cur, pending).s) = SearchResult(Cur)
       /\ ~ENABLED (timer_fires
                      /\ ~UNCHANGED <<search_nodes, parents, distances, solving, message, path>>)
  /\ Ended =>
       /\ \A fn \in Algorithms : animate(fn, Cur, pending) = [s |-> Cur, q |-> pending]
       /\ ~ENABLED (timer_fires /\ ~(UNCHANGED engine_vars /\ Len(pending') = Len(pending) - 1))

\* The goal was reached by one of two scheduled callbacks; the other one is still
\* scheduled and comes due on the ended search.
C5_Witness == Ended /\ message = "Maze Solved" /\ pending # <<>> /\ Len(path) >= 2

(***************************************************************************)
(* C7 as claimed: at most one step callback is scheduled at any time, so   *)
(* no callback of an earlier search drives the search state a later Solve  *)
(* or Restart created.                                                     *)
(***************************************************************************)
C7_AtMostOneCallback == Len(pending) <= 1

(***************************************************************************)
(* C11: Solve or Restart pressed while the maze, the start or the goal is  *)
(* missing (or a point is not an in-bounds passage cell) starts no search  *)
(* and leaves frontier, parent map, cost map, solving flag and schedule as *)
(* they are; a point that is set is always an in-bounds passage cell of    *)
(* the current maze, so every search that runs has both on such cells.     *)
(***************************************************************************)
OnPassage(p) == p # None /\ maze # None /\ IsPassage(maze, p[1], p[2])

PointsOnPassages ==
  /\ start_point # None => OnPassage(start_point)
  /\ end_point # None => OnPassage(end_point)
  /\ solving => (OnPassage(start_point) /\ OnPassage(end_point))

\* With a point missing or off the passages, no Solve and no Restart changes the
\* search state or the schedule, and Solve shows one of its two error boxes.
RejectedSolveChangesNothing ==
  ~(OnPassage(start_point) /\ OnPassage(end_point))
    => /\ ~ENABLED ((on_solve_maze \/ on_restart_search)
                      /\ ~UNCHANGED <<solving, search_nodes, parents, distances, pending,
                                      painted, path>>)
       /\ ~ENABLED (on_solve_maze
                      /\ dialogs' \notin
                           {Append(dialogs, "Error: Generate a maze first!"),
                            Append(dialogs, "Error: Please select both start and end points!")})

C11_InvalidSolveRejected == PointsOnPassages /\ RejectedSolveChangesNothing

\* Solve was pressed on a maze with the start set and the goal missing, and refused.
C11_Witness ==
  /\ dialogs = <<"Error: Please select both start and end points!">>
  /\ maze # None /\ start_point # None /\ end_point = None
  /\ ~solving /\ pending = <<>>

(***************************************************************************)
(* C12: the grid generate_maze returns has an odd width and an odd height: *)
(* the requested value when that is odd, the requested value plus one when *)
(* it is even; every row has that width.                                   *)
(***************************************************************************)
C12_DimensionsForcedOdd ==
  gen_pc = "returned" =>
    /\ Cols(gen_maze) = (IF gen_width % 2 = 1 THEN gen_width ELSE gen_width + 1)
    /\ Rows(gen_maze) = (IF gen_height % 2 = 1 THEN gen_height ELSE gen_height + 1)
    /\ Cols(gen_maze) % 2 = 1 /\ Rows(gen_maze) % 2 = 1
    /\ \A y \in 1 .. Rows(gen_maze) : Len(gen_maze[y]) = Cols(gen_maze)

\* A request of width 4 and height 2 returned a grid of width 5 and height 3.
C12_Witness ==
  /\ gen_pc = "returned" /\ gen_width = 4 /\ gen_height = 2
  /\ Cols(gen_maze) = 5 /\ Rows(gen_maze) = 3

(***************************************************************************)
(* C13 as claimed: no request with width >= 1 and height >= 1 ends in an   *)
(* error, and every grid returned is at least 3 wide and 3 high.           *)
(***************************************************************************)
C13_GenerationNeverFails ==
  /\ gen_pc \in {"idle", "loop", "returned"}
  /\ gen_pc = "returned" => (Cols(gen_maze) >= 3 /\ Rows(gen_maze) >= 3)

(***************************************************************************)
(* C18: for every size that yields a grid and every sequence of random     *)
(* choices, the carving loop ends with the active list empty.  Each        *)
(* iteration either opens two wall cells (the wall between and the         *)
(* neighbour two away) and appends that neighbour, or opens nothing and    *)
(* takes one cell off the list; the appended cell was a wall until then    *)
(* and no cell turns back into a wall, so no cell is appended twice; and   *)
(* in the grid returned every odd-coordinate interior cell is a passage.   *)
(***************************************************************************)
OddCells(m) ==
  {c \in (1 .. Cols(m) - 2) \X (1 .. Rows(m) - 2) : c[1] % 2 = 1 /\ c[2] % 2 = 1}

ActiveCellsDistinct ==
  gen_pc = "loop" =>
    /\ \A i, j \in DOMAIN cell_list : cell_list[i] = cell_list[j] => i = j
    /\ \A i \in DOMAIN cell_list : cell_list[i] \in PassageCells(gen_maze) \cap OddCells(gen_maze)

LoopStepCarvesOrRetires ==
  (gen_pc = "loop" /\ gen_pc' = "loop") =>
    \/ /\ gen_maze' = gen_maze
       /\ Len(cell_list') = Len(cell_list) - 1
    \/ /\ Len(cell_list') = Len(cell_list) + 1
       /\ SubSeq(cell_list', 1, Len(cell_list)) = cell_list
       /\ LET n == cell_list'[Len(cell_list')]
          IN /\ Cell(gen_maze, n[1], n[2]) = 1
             /\ Cell(gen_maze', n[1], n[2]) = 0
       /\ PassageCells(gen_maze) \subseteq PassageCells(gen_maze')
       /\ Cardinality(PassageCells(gen_maze')) = Cardinality(PassageCells(gen_maze)) + 2

C18_CarvingTerminatesFullyCarved ==
  /\ (gen_pc = "loop") ~> (gen_pc = "returned")
  /\ []ActiveCellsDistinct
  /\ [][LoopStepCarvesOrRetires]_vars
  /\ [](gen_pc = "returned" =>
          (cell_list = <<>> /\ OddCells(gen_maze) \subseteq PassageCells(gen_maze)))

\* The loop of a 5 x 5 grid ended: four odd cells and the three walls opened between them.
C18_Witness ==
  /\ gen_pc = "returned" /\ cell_list = <<>>
  /\ Cardinality(OddCells(gen_maze)) = 4
  /\ Cardinality(PassageCells(gen_maze)) = 7

(***************************************************************************)
(* C14: with start equal to goal, the first step of each algorithm pops    *)
(* the start, ends the search with "Maze Solved" and the one-cell path     *)
(* <<start>>; no neighbour is recorded, appended or painted and the step   *)
(* schedules nothing.                                                      *)
(***************************************************************************)
FirstStepOnGoal(algo) ==
  LET out == animate(animate_for(algo), seed(algo, start_point, Cur), pending)
  IN /\ ~out.s.solving /\ out.s.message = "Maze Solved"
     /\ out.s.steps = 1
     /\ out.s.path = <<start_point>>
     /\ DOMAIN out.s.parents = {start_point}
     /\ out.s.search_nodes = <<>> /\ out.s.painted = painted
     /\ out.q = pending

C14_SameStartGoalEndsAtFirstStep ==
  /\ (solves > 0 /\ start_point = end_point /\ steps >= 1) =>
       /\ Done /\ message = "Maze Solved"
       /\ steps = 1
       /\ path = <<start_point>>
       /\ DOMAIN parents = {start_point}
       /\ search_nodes = <<>> /\ painted = {}
  /\ (start_point # None /\ start_point = end_point /\ ~paused) =>
       \A algo \in Algorithms : FirstStepOnGoal(algo)

\* A Dijkstra search with start equal to goal ended at its first step.
C14_Witness ==
  /\ Done /\ start_point = end_point /\ algorithm_var = "Dijkstra"
  /\ steps = 1 /\ popped = <<0, start_point>> /\ path = <<start_point>>

(***************************************************************************)
(* C15 as claimed: a step called before any Solve or Restart fails (with   *)
(* an InvalidState error) instead of returning silently.                   *)
(***************************************************************************)
C15_StepBeforeInitializeFails ==
  solves = 0 => animate(animate_for(algorithm_var), Cur, pending).s.raised # ""

(***************************************************************************)
(* C16: during a BFS or DFS search a recorded parent is never overwritten, *)
(* and a cell enters the frontier only when its parent is first recorded,  *)
(* so at most once; during a Dijkstra or A-star search the recorded cost   *)
(* of a cell never increases, and its cost and parent change only in a     *)
(* step that records a strictly smaller cost for it.                       *)
(***************************************************************************)
FirstVisitWins ==
  (solves' = solves /\ algorithm_var \in {"BFS", "DFS"}) =>
    /\ \A c \in DOMAIN parents : c \in DOMAIN parents' /\ parents'[c] = parents[c]
    /\ Elems(search_nodes') \ Elems(search_nodes) = DOMAIN parents' \ DOMAIN parents

CostOnlyDecreases ==
  (solves' = solves /\ algorithm_var \in {"Dijkstra", "A*"}) =>
    \A c \in DOMAIN distances :
      /\ c \in DOMAIN distances' /\ c \in DOMAIN parents /\ c \in DOMAIN parents'
      /\ distances'[c] <= distances[c]
      /\ (parents'[c] # parents[c] \/ distances'[c] # distances[c]) => distances'[c] < distances[c]

C16_ParentsAndCostsSettle ==
  /\ [](algorithm_var \in {"BFS", "DFS"} =>
          (NoDuplicates(search_nodes) /\ Elems(search_nodes) \subseteq DOMAIN parents))
  /\ [][FirstVisitWins]_vars
  /\ [][CostOnlyDecreases]_vars

\* A DFS search went through a whole 5 x 5 maze, down the wrong arm first: all
\* seven cells have a parent entry, and every cell popped after the first met its
\* own parent again and left it as it was.
C16_Witness ==
  /\ algorithm_var = "DFS" /\ GoalReached
  /\ Cardinality(DOMAIN parents) = 7 /\ Len(path) < 7

(***************************************************************************)
(* C17: the path drawn by each of the four algorithms joins start and      *)
(* goal: its two ends are the start and the goal, every cell on it is an   *)
(* in-bounds passage cell, consecutive cells are 4-adjacent, and no cell   *)
(* is on it twice.                                                         *)
(***************************************************************************)
C17_PathIsValidWalk ==
  GoalReached =>
    /\ path # <<>>
    /\ {path[1], path[Len(path)]} = {start_point, end_point}
    /\ Elems(path) \subseteq PassageCells(maze)
    /\ \A i \in 1 .. Len(path) - 1 : Adjacent(path[i], path[i + 1])
    /\ NoDuplicates(path)

\* DFS drew a path through all seven cells of a 5 x 5 maze, round both bends.
C17_Witness ==
  /\ GoalReached /\ algorithm_var = "DFS"
  /\ Len(path) = 7 /\ path[1] # path[7]

(***************************************************************************)
(* C19: in every state of a search the parent links lead to the start: the *)
(* start keeps the parent None, it is in the frontier only as the seed,    *)
(* and from every cell of the parent map the links reach the start in      *)
(* fewer hops than there are cells in the map.                             *)
(***************************************************************************)
RECURSIVE leads_to(_, _, _, _)
leads_to(par, c, root, n) ==
  IF c = root THEN TRUE
  ELSE IF n = 0 \/ c \notin DOMAIN par THEN FALSE
  ELSE leads_to(par, par[c], root, n - 1)

\* The cell of a frontier entry: (x, y), (cost, (x, y)) or (f, g, (x, y)).
entry_cell(e) == IF entry_kind = "xy" THEN e ELSE e[Len(e)]

C19_ParentsRootedAtStart ==
  solves > 0 =>
    /\ start_point \in DOMAIN parents /\ parents[start_point] = None
    /\ \A c \in DOMAIN parents :
         leads_to(parents, c, start_point, Cardinality(DOMAIN parents) - 1)
    /\ Cardinality({i \in DOMAIN search_nodes : entry_cell(search_nodes[i]) = start_point})
         = (IF steps = 0 THEN 1 ELSE 0)

\* A Dijkstra search from the middle of a 5 x 5 maze went down both arms, where the
\* start is met again from either side: all seven cells are in the parent map.
C19_Witness ==
  /\ algorithm_var = "Dijkstra" /\ GoalReached
  /\ Cardinality(DOMAIN parents) = 7 /\ Len(path) = 4

(***************************************************************************)
(* C20: when Dijkstra or A-star ends at the goal, the number of edges of   *)
(* the drawn path is the accumulated cost with which the goal was popped,  *)
(* and it is the shortest 4-connected path length.                         *)
(***************************************************************************)
C20_CostIsPathLengthIsShortest ==
  (GoalReached /\ algorithm_var \in {"Dijkstra", "A*"}) =>
    LET g == IF algorithm_var = "Dijkstra" THEN popped[1] ELSE popped[2]
    IN /\ Len(path) - 1 = g
       /\ g = ShortestLen(maze, start_point, end_point)

\* A-star went round the ring, which is a cycle, to the goal on the far side: cost four.
C20_Witness ==
  /\ GoalReached /\ algorithm_var = "A*" /\ maze = RingGrid
  /\ popped[2] = 4 /\ Len(path) = 5

====
